---- MODULE Spec2Model ----
(***************************************************************************)
(* State-machine model of the checkout backend: the product files, the     *)
(* Express routes of checkoutRoutes.js, the two middlewares of              *)
(* validation.js and the handlers of the checkout controller.  Every       *)
(* action is one run of a handler between two awaits of the Node event     *)
(* loop, so the interleavings of the model are those of the process.       *)
(***************************************************************************)
EXTENDS Integers, FiniteSets, Sequences, TLC

\* ------------------------------------------------------------------ bounds
NConn == 2      \* HTTP requests the process handles in one run
MaxStock == 2   \* largest stock of a product file at start
MaxQty == 2     \* largest quantity a request or an event names

Conns == 1..NConn

\* ------------------------------------------------- JavaScript values used
\* A request's quantity is a JSON value (or absent): tag t and, for the
\* numeric shapes, the integer v.  "fraction" is v + 1/2, "string" is the
\* decimal string of v.
QUndef == [t |-> "undefined", v |-> 0]
QNull == [t |-> "null", v |-> 0]
QInt(n) == [t |-> "number", v |-> n]
QFrac(n) == [t |-> "fraction", v |-> n]
QStr(n) == [t |-> "string", v |-> n]

\* !value
Falsy(q) == q.t \in {"undefined", "null"} \/ (q.t = "number" /\ q.v = 0)

\* Number.isInteger(value)
NumberIsInteger(q) == q.t = "number"

\* value.toString(): throws a TypeError on undefined and null
ToStringThrows(q) == q.t \in {"undefined", "null"}

\* parseInt(text, 10) of a decimal string
parseInt(s) == s.v

\* body.quantity > stock: undefined and null never compare greater than a
\* positive stock; a number compares by value
GreaterThan(q, n) ==
  CASE q.t = "number" -> q.v > n
    [] q.t = "string" -> q.v > n
    [] q.t = "fraction" -> q.v >= n
    [] OTHER -> FALSE

\* The missing product_id of a request body
NoProductId == ""

\* --------------------------------------------------------- product files
\* src/products/<id>.json: the files present and what each holds.  A file's
\* content is the JSON text of a product record.
ExistingIds == {"p1"}
MissingIds == {"p0"}

ProductRecord(id, stock) ==
  [id |-> id, name |-> "Product", amount |-> 1000, currency |-> "usd",
   stock |-> stock]

\* What updateProduct is handed as updatedProduct: an object, or (as
\* handleWebhook does) a function that would decrement the stock by dec.
Object(record) == [t |-> "object", v |-> record, dec |-> 0]
Callback(dec) == [t |-> "function", v |-> ProductRecord("", 0), dec |-> dec]

\* JSON.stringify(value, null, 2): a function has no JSON text
JSONstringify(value) ==
  IF value.t = "function"
  THEN [t |-> "undefined", json |-> ProductRecord("", 0)]
  ELSE [t |-> "string", json |-> value.v]

\* JSON.parse(text)
JSONparse(text) == text.json

\* fs.access(path) inside checkProductExists: does the file exist
checkProductExists(files, productId) == productId \in DOMAIN files

\* fs.promises.writeFile(path, data, "utf-8"): data that is not a string is
\* refused with ERR_INVALID_ARG_TYPE before the file is opened
fsWriteFile(files, productId, data) ==
  IF data.t # "string"
  THEN [threw |-> TRUE, files |-> files]
  ELSE [threw |-> FALSE, files |-> [files EXCEPT ![productId] = data]]

\* A plausible updateProduct: read the record, apply the callback, write it
updateProduct_applies(files, productId, updatedProduct) ==
  IF ~checkProductExists(files, productId)
  THEN [success |-> FALSE, error |-> "not found", files |-> files]
  ELSE LET current == JSONparse(files[productId])
           new == IF updatedProduct.t = "function"
                  THEN [current EXCEPT !.stock = @ - updatedProduct.dec]
                  ELSE updatedProduct.v
       IN [success |-> TRUE, error |-> "none",
           files |-> [files EXCEPT
                        ![productId] = [t |-> "string", json |-> new]]]

\* updateProduct once its fs.access has returned
updateProduct(files, productId, updatedProduct) ==
  IF ~checkProductExists(files, productId)
  THEN [success |-> FALSE, error |-> "not found", files |-> files]
  ELSE LET w == fsWriteFile(files, productId, JSONstringify(updatedProduct))
       IN IF w.threw
          THEN [success |-> FALSE, error |-> "write failed", files |-> w.files]
          ELSE [success |-> TRUE, error |-> "none", files |-> w.files]

\* ------------------------------------------------------------------ state
VARIABLES
  files,         \* the product files: product id -> JSON text
  conn,          \* per HTTP request: its route, input, position and response
  initialFiles   \* history: the product files at start

vars == <<files, conn, initialFiles>>

Idle ==
  [pc |-> "idle", route |-> "none", product_id |-> NoProductId,
   quantity |-> QUndef, signed |-> FALSE, sigOK |-> FALSE, type |-> "none",
   replay |-> FALSE,
   status |-> 0, body |-> "none", by |-> "none", io |-> {},
   branch |-> "none", log |-> "none"]

\* res.status(status).json(body) sent by the handler `by`
Respond(rec, by, status, body) ==
  [rec EXCEPT !.pc = "done", !.by = by, !.status = status, !.body = body]

\* ------------------------------------------------ POST /create-checkout-session
\* The request bodies of the model
ProductIdInputs == {NoProductId} \cup ExistingIds \cup MissingIds
QuantityInputs ==
  {QUndef, QNull, QFrac(1), QStr(MaxQty)} \cup {QInt(n) : n \in -1..MaxQty}

\* validateCheckoutData without the Number.isInteger test
validateCheckoutData_noIntegerTest(product_id, bodyQuantity) ==
  LET quantity == IF bodyQuantity.t = "undefined" THEN QInt(1) ELSE bodyQuantity
  IN IF product_id = NoProductId
     THEN [next |-> FALSE, status |-> 400, error |-> "Product ID is required"]
     ELSE IF Falsy(quantity)
     THEN [next |-> FALSE, status |-> 400, error |-> "Quantity is required"]
     ELSE IF quantity.t = "number" /\ quantity.v < 1
     THEN [next |-> FALSE, status |-> 400,
           error |-> "Quantity must be a positive integer"]
     ELSE [next |-> TRUE, status |-> 0, error |-> "none"]

\* validateCheckoutData: the default of 1 is a local of the middleware, the
\* body keeps the quantity it came with
validateCheckoutData(product_id, bodyQuantity) ==
  LET quantity == IF bodyQuantity.t = "undefined" THEN QInt(1) ELSE bodyQuantity
  IN IF product_id = NoProductId
     THEN [next |-> FALSE, status |-> 400, error |-> "Product ID is required"]
     ELSE IF Falsy(quantity)
     THEN [next |-> FALSE, status |-> 400, error |-> "Quantity is required"]
     ELSE IF ~NumberIsInteger(quantity) \/ quantity.v < 1
     THEN [next |-> FALSE, status |-> 400,
           error |-> "Quantity must be a positive integer"]
     ELSE [next |-> TRUE, status |-> 0, error |-> "none"]

\* createCheckoutSession up to its await: the arguments of
\* stripe.checkout.sessions.create are built first, and quantity.toString()
\* throws when the body has no quantity; the catch answers 500
createCheckoutSession(rec, product) ==
  IF ToStringThrows(rec.quantity)
  THEN Respond(rec, "createCheckoutSession", 500,
               "Error creating checkout session")
  ELSE [rec EXCEPT !.pc = "stripe",
                   !.io = @ \cup {"stripe.checkout.sessions.create"}]

\* createCheckoutSession after the provider answered (ok) or failed
createCheckoutSessionReturns(rec, ok) ==
  IF ok
  THEN Respond(rec, "createCheckoutSession", 200, "checkout_url")
  ELSE Respond(rec, "createCheckoutSession", 500,
               "Error creating checkout session")

\* loadProductInfo after checkProductExists returned
loadProductInfoExists(rec, fs) ==
  IF ~checkProductExists(fs, rec.product_id)
  THEN Respond(rec, "loadProductInfo", 404, "Product not found")
  ELSE [rec EXCEPT !.pc = "read", !.io = @ \cup {"fs.readFile"}]

\* The stock tests of loadProductInfo on the product it read
stockTest(rec, product) ==
  IF product.stock = 0 \/ product.stock < 1
  THEN "Product out of stock"
  ELSE IF GreaterThan(rec.quantity, product.stock)
  THEN "Insufficient stock"
  ELSE "next"

\* loadProductInfo that reserves the quantity it has just checked
loadProductInfo_reserves(rec, fs) ==
  LET product == JSONparse(fs[rec.product_id])
      test == stockTest(rec, product)
      q == IF rec.quantity.t = "number" THEN rec.quantity.v ELSE 1
  IN IF test # "next"
     THEN [conn |-> Respond(rec, "loadProductInfo", 400, test), files |-> fs]
     ELSE [conn |-> createCheckoutSession(rec, product),
           files |-> [fs EXCEPT ![rec.product_id] =
                        JSONstringify(Object([product EXCEPT !.stock = @ - q]))]]

\* loadProductInfo after fs.readFile returned: the stock tests, then next(),
\* which runs createCheckoutSession up to its await.  Nothing is written.
loadProductInfo(rec, fs) ==
  LET product == JSONparse(fs[rec.product_id])
      test == stockTest(rec, product)
  IN IF test # "next"
     THEN [conn |-> Respond(rec, "loadProductInfo", 400, test), files |-> fs]
     ELSE [conn |-> createCheckoutSession(rec, product), files |-> fs]

\* A request arrives: validateCheckoutData, then loadProductInfo up to the
\* await of fs.access
PostCreateCheckoutSession(c) ==
  /\ conn[c].pc = "idle"
  /\ \E product_id \in ProductIdInputs, quantity \in QuantityInputs :
       LET rec == [Idle EXCEPT !.route = "checkout",
                               !.product_id = product_id,
                               !.quantity = quantity]
           v == validateCheckoutData(product_id, quantity)
       IN conn' = [conn EXCEPT ![c] =
            IF v.next
            THEN [rec EXCEPT !.pc = "access", !.io = {"fs.access"}]
            ELSE Respond(rec, "validateCheckoutData", v.status, v.error)]
  /\ UNCHANGED <<files, initialFiles>>

LoadProductInfo(c) ==
  /\ conn[c].route = "checkout" /\ conn[c].pc = "read"
  /\ LET r == loadProductInfo(conn[c], files)
     IN /\ conn' = [conn EXCEPT ![c] = r.conn]
        /\ files' = r.files
  /\ UNCHANGED initialFiles

CreateCheckoutSessionReturns(c) ==
  /\ conn[c].route = "checkout" /\ conn[c].pc = "stripe"
  /\ \E ok \in BOOLEAN :
       conn' = [conn EXCEPT ![c] = createCheckoutSessionReturns(conn[c], ok)]
  /\ UNCHANGED <<files, initialFiles>>

\* ------------------------------------------------------- GET /products/:id
\* getProductInfo after checkProductExists returned
getProductInfoExists(rec, fs) ==
  IF ~checkProductExists(fs, rec.product_id)
  THEN Respond(rec, "getProductInfo", 404, "Product not found")
  ELSE [rec EXCEPT !.pc = "read", !.io = @ \cup {"fs.readFile"}]

\* getProductInfo after fs.readFile returned: the record with its
\* availability flags (available = inStock = stock > 0)
getProductInfo(rec, fs) ==
  LET product == JSONparse(fs[rec.product_id])
  IN [Respond(rec, "getProductInfo", 200, "product") EXCEPT
        !.log = IF product.stock > 0 THEN "available" ELSE "outOfStock"]

GetProduct(c) ==
  /\ conn[c].pc = "idle"
  /\ \E id \in ExistingIds \cup MissingIds :
       conn' = [conn EXCEPT ![c] =
         [Idle EXCEPT !.route = "product", !.product_id = id,
                      !.pc = "access", !.io = {"fs.access"}]]
  /\ UNCHANGED <<files, initialFiles>>

GetProductInfo(c) ==
  /\ conn[c].route = "product" /\ conn[c].pc = "read"
  /\ conn' = [conn EXCEPT ![c] = getProductInfo(conn[c], files)]
  /\ UNCHANGED <<files, initialFiles>>

\* ------------------------------------------- GET /session-status/:session_id
\* getCheckoutStatus up to the await of stripe.checkout.sessions.retrieve;
\* the route always binds a session_id
getCheckoutStatus(rec, hasSessionId) ==
  IF ~hasSessionId
  THEN Respond(rec, "getCheckoutStatus", 400,
               "session_id parameter is required")
  ELSE [rec EXCEPT !.pc = "retrieve",
                   !.io = {"stripe.checkout.sessions.retrieve"}]

\* getCheckoutStatus after the provider answered (ok) or failed
getCheckoutStatusReturns(rec, ok) ==
  IF ok
  THEN Respond(rec, "getCheckoutStatus", 200, "session")
  ELSE Respond(rec, "getCheckoutStatus", 500,
               "Error retrieving checkout status")

GetCheckoutStatus(c) ==
  /\ conn[c].pc = "idle"
  /\ conn' = [conn EXCEPT ![c] =
       getCheckoutStatus([Idle EXCEPT !.route = "status"], TRUE)]
  /\ UNCHANGED <<files, initialFiles>>

GetCheckoutStatusReturns(c) ==
  /\ conn[c].route = "status" /\ conn[c].pc = "retrieve"
  /\ \E ok \in BOOLEAN :
       conn' = [conn EXCEPT ![c] = getCheckoutStatusReturns(conn[c], ok)]
  /\ UNCHANGED <<files, initialFiles>>

\* ------------------------------------------------------------ POST /webhook
Completed == "checkout.session.completed"
EventTypes ==
  {Completed, "payment_intent.succeeded", "payment_intent.payment_failed",
   "customer.created"}

\* The notifications of the model (Content-Type application/json, as the
\* provider sends them): whether the stripe-signature header is the
\* provider's signature of the raw payload, the event type and, for a
\* completed session, the metadata the session carries
EventInputs ==
  {[signed |-> s, type |-> Completed, product_id |-> id, quantity |-> QStr(n)] :
     s \in BOOLEAN, id \in ExistingIds \cup MissingIds, n \in 1..MaxQty}
  \cup
  {[signed |-> s, type |-> t, product_id |-> NoProductId, quantity |-> QUndef] :
     s \in BOOLEAN, t \in EventTypes \ {Completed}}

\* req.body of a JSON request no body parser has read yet
Unread == [kind |-> "stream", parsed |-> FALSE]

\* app.use(express.json()), mounted before the router: the JSON body is
\* parsed into an object and the request marked as read
expressJson(body) ==
  IF body.parsed THEN body ELSE [kind |-> "object", parsed |-> TRUE]

\* express.raw({type: "application/json"}) of the webhook route: a Buffer of
\* the payload, unless a body parser has read the request already
expressRaw(body) ==
  IF body.parsed THEN body ELSE [kind |-> "buffer", parsed |-> TRUE]

\* stripe.webhooks.constructEvent(req.body, sig, secret): TRUE when it
\* returns the event, FALSE when it throws.  The signature is one of the raw
\* payload, so it verifies only a Buffer (or string) of it.
constructEvent(body, signed) == body.kind = "buffer" /\ signed

\* The switch of handleWebhook on event.type, up to its await
dispatch(rec) ==
  IF rec.type = Completed
  THEN [rec EXCEPT !.pc = "access", !.branch = Completed,
                   !.log = "Checkout completed", !.io = {"fs.access"}]
  ELSE [Respond(rec, "handleWebhook", 200, "received: true") EXCEPT
          !.branch = IF rec.type \in EventTypes \ {"customer.created"}
                     THEN rec.type ELSE "default",
          !.log = IF rec.type = "payment_intent.succeeded"
                  THEN "Payment successful"
                  ELSE IF rec.type = "payment_intent.payment_failed"
                  THEN "Payment failed" ELSE "Unhandled event type"]

\* handleWebhook that dispatches the event whether or not the signature
\* verified
handleWebhook_noVerification(rec, body, fs) ==
  [conn |-> dispatch([rec EXCEPT !.sigOK = constructEvent(body, rec.signed)]),
   files |-> fs]

\* handleWebhook up to its first await: stripe.webhooks.constructEvent, then
\* the switch on the event type.  A completed session calls updateProduct,
\* which awaits fs.access; every other type is logged and acknowledged.
handleWebhook(rec, body, fs) ==
  IF ~constructEvent(body, rec.signed)
  THEN [conn |-> [Respond(rec, "handleWebhook", 400, "Webhook Error") EXCEPT
                    !.log = "Webhook signature verification failed"],
        files |-> fs]
  ELSE [conn |-> dispatch([rec EXCEPT !.sigOK = TRUE]), files |-> fs]

\* handleWebhook that answers 500 when the stock update failed
handleWebhookAcknowledge_failsOnError(rec, success) ==
  IF success
  THEN [Respond(rec, "handleWebhook", 200, "received: true") EXCEPT
          !.log = "stock updated successfully"]
  ELSE [Respond(rec, "handleWebhook", 500, "Error updating product stock")
          EXCEPT !.log = "Error updating product stock"]

\* handleWebhook after updateProduct returned: the result is logged, the
\* notification acknowledged
handleWebhookAcknowledge(rec, success) ==
  [Respond(rec, "handleWebhook", 200, "received: true") EXCEPT
     !.log = IF success THEN "stock updated successfully"
             ELSE "Error updating product stock"]

\* handleWebhook from the return of fs.access inside updateProduct to the
\* response: updateProduct is handed the async callback as updatedProduct
handleWebhookUpdate(rec, fs) ==
  LET productId == rec.product_id
      quantityPurchased == parseInt(rec.quantity)
      productUpdateResult ==
        updateProduct(fs, productId, Callback(quantityPurchased))
  IN [conn |-> [handleWebhookAcknowledge(rec, productUpdateResult.success)
                  EXCEPT !.io = IF checkProductExists(fs, productId)
                                THEN @ \cup {"fs.writeFile"} ELSE @],
      files |-> productUpdateResult.files]

\* A notification arrives: express.json of the application, express.raw of
\* the route, then handleWebhook
PostWebhook(c) ==
  /\ conn[c].pc = "idle"
  /\ \E e \in EventInputs :
       LET r == handleWebhook(
                  [Idle EXCEPT !.route = "webhook", !.signed = e.signed,
                     !.type = e.type, !.product_id = e.product_id,
                     !.quantity = e.quantity],
                  expressRaw(expressJson(Unread)), files)
       IN /\ conn' = [conn EXCEPT ![c] = r.conn]
          /\ files' = r.files
  /\ UNCHANGED initialFiles

\* The provider delivers at least once, and again after an answer that is
\* not a success: a notification it signed arrives a second time
PostWebhookReplay(c) ==
  /\ conn[c].route = "webhook" /\ conn[c].pc = "done"
  /\ conn[c].signed /\ ~conn[c].replay
  /\ LET r == handleWebhook(
                [Idle EXCEPT !.route = "webhook", !.signed = conn[c].signed,
                   !.type = conn[c].type, !.product_id = conn[c].product_id,
                   !.quantity = conn[c].quantity, !.replay = TRUE],
                expressRaw(expressJson(Unread)), files)
     IN /\ conn' = [conn EXCEPT ![c] = r.conn]
        /\ files' = r.files
  /\ UNCHANGED initialFiles

\* loadProductInfo resumes after checkProductExists
LoadProductInfoExists(c) ==
  /\ conn[c].route = "checkout" /\ conn[c].pc = "access"
  /\ conn' = [conn EXCEPT ![c] = loadProductInfoExists(conn[c], files)]
  /\ UNCHANGED <<files, initialFiles>>

\* getProductInfo resumes after checkProductExists
GetProductInfoExists(c) ==
  /\ conn[c].route = "product" /\ conn[c].pc = "access"
  /\ conn' = [conn EXCEPT ![c] = getProductInfoExists(conn[c], files)]
  /\ UNCHANGED <<files, initialFiles>>

\* handleWebhook on its own, with the raw body its documentation asks for
\* ("Express request object with raw body"): express.raw of the route reads
\* the request, no parser before it
HandleWebhook(c) ==
  /\ conn[c].pc = "idle"
  /\ \E e \in EventInputs :
       LET r == handleWebhook(
                  [Idle EXCEPT !.route = "webhook", !.signed = e.signed,
                     !.type = e.type, !.product_id = e.product_id,
                     !.quantity = e.quantity],
                  expressRaw(Unread), files)
       IN /\ conn' = [conn EXCEPT ![c] = r.conn]
          /\ files' = r.files
  /\ UNCHANGED initialFiles

\* The provider delivers at least once: an acknowledged event arrives again
HandleWebhookReplay(c) ==
  /\ conn[c].route = "webhook" /\ conn[c].pc = "done"
  /\ conn[c].sigOK /\ ~conn[c].replay
  /\ LET r == handleWebhook(
                [Idle EXCEPT !.route = "webhook", !.signed = conn[c].signed,
                   !.type = conn[c].type, !.product_id = conn[c].product_id,
                   !.quantity = conn[c].quantity, !.replay = TRUE],
                expressRaw(Unread), files)
     IN /\ conn' = [conn EXCEPT ![c] = r.conn]
        /\ files' = r.files
  /\ UNCHANGED initialFiles

\* handleWebhook resumes after the fs.access of updateProduct
HandleWebhookUpdate(c) ==
  /\ conn[c].route = "webhook" /\ conn[c].pc = "access"
  /\ LET r == handleWebhookUpdate(conn[c], files)
     IN /\ conn' = [conn EXCEPT ![c] = r.conn]
        /\ files' = r.files
  /\ UNCHANGED initialFiles

\* ---------------------------------------------------------- specification
Init ==
  /\ \E stock \in [ExistingIds -> 0..MaxStock] :
       files = [id \in ExistingIds |->
                  JSONstringify(Object(ProductRecord(id, stock[id])))]
  /\ initialFiles = files
  /\ conn = [c \in Conns |-> Idle]

Next ==
  \E c \in Conns :
    \/ PostCreateCheckoutSession(c)
    \/ LoadProductInfoExists(c)
    \/ LoadProductInfo(c)
    \/ CreateCheckoutSessionReturns(c)
    \/ GetProduct(c)
    \/ GetProductInfoExists(c)
    \/ GetProductInfo(c)
    \/ GetCheckoutStatus(c)
    \/ GetCheckoutStatusReturns(c)
    \/ PostWebhook(c)
    \/ PostWebhookReplay(c)

\* The application as composed in checkoutRoutes.js: express.json() reads
\* every JSON body before the router, so no notification passes
\* constructEvent and the switch of handleWebhook is never reached
Spec == Init /\ [][Next]_vars

\* The handlers as exported, handleWebhook being given the raw body: the
\* behaviour of the code after constructEvent has returned the event
NextHandler ==
  \E c \in Conns :
    \/ PostCreateCheckoutSession(c)
    \/ LoadProductInfoExists(c)
    \/ LoadProductInfo(c)
    \/ CreateCheckoutSessionReturns(c)
    \/ GetProduct(c)
    \/ GetProductInfoExists(c)
    \/ GetProductInfo(c)
    \/ GetCheckoutStatus(c)
    \/ GetCheckoutStatusReturns(c)
    \/ HandleWebhook(c)
    \/ HandleWebhookReplay(c)
    \/ HandleWebhookUpdate(c)

SpecHandler == Init /\ [][NextHandler]_vars

\* ----------------------------------------------------------------- claims
Stock(fs, id) == JSONparse(fs[id]).stock

\* An authenticated checkout.session.completed notification: constructEvent
\* returned the event and the switch took its first case
IsCompletion(rec) ==
  rec.route = "webhook" /\ rec.sigOK /\ rec.type = Completed

\* A quantity that is present and is not a positive integer
InvalidQuantity(q) == q.t # "undefined" /\ ~(q.t = "number" /\ q.v >= 1)

\* C1: once handleWebhook has finished an authenticated
\* checkout.session.completed event for an existing product p with quantity
\* q, and no other notification was handled, the record of p is the record
\* at start with its stock lowered by q and every other field as it was.
C1_StockDecremented ==
  \A c \in Conns :
    ( /\ IsCompletion(conn[c]) /\ conn[c].pc = "done" /\ ~conn[c].replay
      /\ conn[c].product_id \in DOMAIN files
      /\ \A d \in Conns \ {c} : conn[d].route # "webhook" )
    => JSONparse(files[conn[c].product_id]) =
         [JSONparse(initialFiles[conn[c].product_id]) EXCEPT
            !.stock = @ - parseInt(conn[c].quantity)]

\* C2: a notification whose signature does not verify is answered 400 in the
\* step that receives it, no branch of the switch runs, updateProduct is not
\* called (no file is touched) and the product files are as before.
C2_InvalidSignatureRejected ==
  [][\A c \in Conns :
       ( conn[c].pc = "idle" /\ conn'[c].route = "webhook"
         /\ ~conn'[c].sigOK )
       => ( /\ conn'[c].pc = "done" /\ conn'[c].status = 400
            /\ conn'[c].branch = "none" /\ conn'[c].io = {}
            /\ files' = files )]_vars

C2_Witness ==
  \E c \in Conns :
    /\ conn[c].route = "webhook" /\ ~conn[c].sigOK /\ conn[c].pc = "done"
    /\ ~conn[c].signed /\ conn[c].type = Completed /\ conn[c].product_id \in DOMAIN files
    /\ conn[c].status = 400

\* C3: a create-checkout-session request with a product_id and a quantity
\* that is present but not a positive integer is answered 400 by
\* validateCheckoutData, having read no file and called no provider; a
\* request without quantity is not stopped by validateCheckoutData.
C3_InvalidQuantityRejected ==
  \A c \in Conns :
    (conn[c].route = "checkout" /\ conn[c].product_id # NoProductId)
    => /\ InvalidQuantity(conn[c].quantity)
            => ( /\ conn[c].pc = "done" /\ conn[c].status = 400
                 /\ conn[c].by = "validateCheckoutData" /\ conn[c].io = {} )
       /\ conn[c].quantity = QUndef => conn[c].by # "validateCheckoutData"

C3_Witness ==
  \E c, d \in Conns :
    /\ conn[c].route = "checkout" /\ conn[c].product_id \in ExistingIds
    /\ conn[c].quantity = QStr(MaxQty) /\ conn[c].status = 400
    /\ conn[d].route = "checkout" /\ conn[d].product_id \in ExistingIds
    /\ conn[d].quantity = QUndef /\ conn[d].pc = "read"

\* C4: for a request that passed validateCheckoutData with quantity q (1 when
\* omitted), the provider's session creation is called exactly when the
\* product file exists, its stock is >= 1 and q <= stock; otherwise the
\* answer is 404 (no file), 400 out of stock (stock <= 0) or 400 insufficient
\* stock (q > stock), in that order.
C4_SessionIffAvailable ==
  \A c \in Conns :
    ( /\ conn[c].route = "checkout" /\ conn[c].pc \in {"stripe", "done"}
      /\ conn[c].by # "validateCheckoutData" )
    => LET q == IF conn[c].quantity.t = "undefined" THEN 1
                ELSE conn[c].quantity.v
           exists == conn[c].product_id \in DOMAIN files
           stock == IF exists THEN Stock(files, conn[c].product_id) ELSE 0
           called == "stripe.checkout.sessions.create" \in conn[c].io
       IN /\ called <=> (exists /\ stock >= 1 /\ q <= stock)
          /\ ~called =>
               IF ~exists THEN conn[c].status = 404
               ELSE IF stock <= 0
               THEN conn[c].status = 400
                    /\ conn[c].body = "Product out of stock"
               ELSE conn[c].status = 400
                    /\ conn[c].body = "Insufficient stock"

\* The same statement for the requests that name their quantity
C4_ExplicitQuantity ==
  \A c \in Conns :
    ( /\ conn[c].route = "checkout" /\ conn[c].pc \in {"stripe", "done"}
      /\ conn[c].by # "validateCheckoutData"
      /\ conn[c].quantity.t = "number" )
    => LET q == conn[c].quantity.v
           exists == conn[c].product_id \in DOMAIN files
           stock == IF exists THEN Stock(files, conn[c].product_id) ELSE 0
           called == "stripe.checkout.sessions.create" \in conn[c].io
       IN /\ called <=> (exists /\ stock >= 1 /\ q <= stock)
          /\ ~called =>
               IF ~exists THEN conn[c].status = 404
               ELSE IF stock <= 0
               THEN conn[c].status = 400
                    /\ conn[c].body = "Product out of stock"
               ELSE conn[c].status = 400
                    /\ conn[c].body = "Insufficient stock"

\* C5: the stock every product file holds is a non-negative integer, in every
\* reachable state.
C5_StockNonNegative ==
  \A id \in DOMAIN files : Stock(files, id) \in Nat

\* Two authenticated completions of the same product, one of them replayed,
\* have been handled as far as the write of updateProduct and together name
\* more than the stock there was
C5_Witness ==
  \E c, d \in Conns :
    /\ c # d
    /\ IsCompletion(conn[c]) /\ conn[c].pc = "done" /\ conn[c].replay
    /\ IsCompletion(conn[d]) /\ conn[d].pc = "done"
    /\ conn[c].product_id \in DOMAIN files
    /\ conn[d].product_id = conn[c].product_id
    /\ parseInt(conn[c].quantity) + parseInt(conn[d].quantity)
         > Stock(initialFiles, conn[c].product_id)
    /\ "fs.writeFile" \in conn[c].io /\ "fs.writeFile" \in conn[d].io

\* C6: every step of handling a replayed, authenticated
\* checkout.session.completed event leaves the product files as the first
\* handling left them.
C6_ReplayChangesNothing ==
  [][\A c \in Conns :
       ( /\ IsCompletion(conn'[c]) /\ conn'[c].replay
         /\ conn'[c] # conn[c] )
       => files' = files]_vars

\* A replayed authenticated completion of a product in stock was handled as
\* far as the write of updateProduct
C6_Witness ==
  \E c \in Conns :
    /\ IsCompletion(conn[c]) /\ conn[c].pc = "done" /\ conn[c].replay
    /\ conn[c].product_id \in DOMAIN files
    /\ Stock(files, conn[c].product_id) > 0
    /\ conn[c].branch = Completed /\ "fs.writeFile" \in conn[c].io
    /\ files = initialFiles

C8_OnlyCompletionWrites ==
  [][\A c \in Conns :
       (conn'[c] # conn[c] /\ ~IsCompletion(conn'[c])) => files' = files]_vars

\* A session was created for a product whose stock is what it was, next to
\* a payment_intent.succeeded notification
C8_Witness ==
  \E c, d \in Conns :
    /\ conn[c].route = "checkout" /\ conn[c].status = 200
    /\ conn[c].product_id \in DOMAIN files
    /\ files[conn[c].product_id] = initialFiles[conn[c].product_id]
    /\ conn[d].route = "webhook" /\ conn[d].sigOK /\ conn[d].pc = "done"
    /\ conn[d].branch = "payment_intent.succeeded"
    /\ conn[d].type = "payment_intent.succeeded"

\* C9: the availability test of loadProductInfo takes no reservation: a
\* request whose quantity the stock covers goes on to the provider and the
\* product files stay as they were, whatever sessions are already open.
C9_CheckTakesNoReservation ==
  [][\A c \in Conns :
       ( /\ conn[c].route = "checkout" /\ conn[c].pc = "read"
         /\ conn'[c].pc # "read"
         /\ conn[c].quantity.t = "number"
         /\ Stock(files, conn[c].product_id) >= 1
         /\ conn[c].quantity.v <= Stock(files, conn[c].product_id) )
       => (conn'[c].pc = "stripe" /\ files' = files)]_vars

\* Overselling: two requests for the same product both hold a payment
\* session, each within the stock, together beyond it
C9_Witness ==
  \E c, d \in Conns :
    /\ c # d
    /\ conn[c].route = "checkout" /\ conn[c].status = 200
    /\ conn[d].route = "checkout" /\ conn[d].status = 200
    /\ conn[c].product_id = conn[d].product_id
    /\ conn[c].product_id \in DOMAIN files
    /\ conn[c].quantity.v <= Stock(files, conn[c].product_id)
    /\ conn[d].quantity.v <= Stock(files, conn[c].product_id)
    /\ conn[c].quantity.v + conn[d].quantity.v
         > Stock(files, conn[c].product_id)

\* C10: when two authenticated checkout.session.completed notifications for
\* the same product (quantities q1, q2, stock s at start) have both been
\* handled and nothing else wrote, the stock is s - q1 - q2 or, by a lost
\* update, s - q1 or s - q2.
C10_BothDecrementOrLostUpdate ==
  \A c, d \in Conns :
    ( /\ c # d
      /\ IsCompletion(conn[c]) /\ conn[c].pc = "done" /\ ~conn[c].replay
      /\ IsCompletion(conn[d]) /\ conn[d].pc = "done" /\ ~conn[d].replay
      /\ conn[c].product_id \in DOMAIN files
      /\ conn[d].product_id = conn[c].product_id
      /\ \A e \in Conns \ {c, d} : conn[e].route # "webhook" )
    => LET s == Stock(initialFiles, conn[c].product_id)
           q1 == parseInt(conn[c].quantity)
           q2 == parseInt(conn[d].quantity)
       IN Stock(files, conn[c].product_id) \in {s - q1 - q2, s - q1, s - q2}

====
